---- MODULE Spec2Model ----
(***************************************************************************)
(* Anschreiben-Generator (src/app.py): the LaTeX guardrail flow, the       *)
(* text-generation call wrapper, the compiler wrapper and the button       *)
(* handlers of the Streamlit script.                                       *)
(*                                                                         *)
(* Strings are sequences of lexemes.  A lexeme is either a character       *)
(* (space, newline), the three-backtick fence, one of the literal phrases  *)
(* the code searches for, or an opaque word.  Substring search, strip,     *)
(* splitlines and join are computed on these sequences as Python computes  *)
(* them on characters.                                                     *)
(***************************************************************************)
EXTENDS Integers, Sequences, FiniteSets, TLC

VARIABLES
    OpenAI,            \* FALSE when the SDK import failed (OpenAI is None)
    api_key,           \* sidebar text input
    cv_text,           \* text extracted from the uploaded CV in this run
    cv_text_cache,     \* st.session_state.cv_text_cache
    job_text,          \* st.session_state["job_text"]
    job_text_cache,    \* st.session_state.job_text_cache
    letter_text,       \* st.session_state.letter_text
    qa_answer,         \* st.session_state.qa_answer
    pc,                \* position of the script run: idle, request, compile
    run,               \* the button whose handler is running / ran last
    attempt,           \* which _do_call of call_openai_chat is next (1..3)
    req_log,           \* outcomes of the _do_call attempts of this action
    call_ret,          \* how call_openai_chat ended in this action
    completion,        \* the string call_openai_chat returned to the LaTeX handler
    latex_filled,      \* the handler's local latex_filled after de-fencing
    letter_body,       \* the handler's local letter_body
    tex_offered,       \* data of the .tex download button, or NoValue
    tex_source,        \* argument of compile_latex_to_pdf, or NoValue
    n_compiles,        \* compiler processes started in this action
    tmpdirs,           \* directories that exist in the system temp directory
    td,                \* directory made by the last TemporaryDirectory(), 0 if none
    proc,              \* how the last compiler process ended
    result,            \* (pdf_bytes, log) returned by compile_latex_to_pdf
    shown,             \* elements the script run rendered (errors, downloads, ...)
    fence_in,          \* input of the de-fencing runs
    fence_out          \* outputs of successive strip_code_fences applications

vars == << OpenAI, api_key, cv_text, cv_text_cache, job_text, job_text_cache,
           letter_text, qa_answer, pc, run, attempt, req_log, call_ret,
           completion, latex_filled, letter_body, tex_offered, tex_source,
           n_compiles, tmpdirs, td, proc, result, shown,
           fence_in, fence_out >>

sessionVars == << OpenAI, api_key, cv_text, cv_text_cache, job_text,
                  job_text_cache, letter_text, qa_answer >>
callVars == << attempt, req_log, call_ret >>
latexVars == << completion, latex_filled, letter_body, tex_offered, tex_source >>
compileVars == << n_compiles, tmpdirs, td, proc, result >>
fenceVars == << fence_in, fence_out >>

---------------------------------------------------------------------------
(* Bounds of the model. *)

MaxFenceLen == 5
MaxBody == 3
NumDirs == 2

---------------------------------------------------------------------------
(* Lexemes. *)

SP == "SP"
NL == "NL"
FENCE == "fence"
DOCUMENTCLASS == "documentclass"
BEGIN_DOCUMENT == "begin_document"
END_DOCUMENT == "end_document"
MAKELETTERTITLE == "makelettertitle"
MAKELETTERCLOSING == "makeletterclosing"
LOREM_ipsum == "Lorem ipsum"
LOREM_Ipsum == "Lorem Ipsum"
STYLE_TYPO == "misspelled style command"
WORD == "x"
WORD2 == "y"

NoValue == << "None" >>
Whitespace == {SP, NL}

Min(S) == CHOOSE x \in S : \A y \in S : x <= y
Max(S) == CHOOSE x \in S : \A y \in S : y <= x

SeqsUpTo(A, n) == UNION { [1..k -> A] : k \in 0..n }

---------------------------------------------------------------------------
(* Python string operations on lexeme sequences. *)

\* str.strip(): drop leading and trailing whitespace
strip(s) ==
    LET keep == { i \in 1..Len(s) : s[i] \notin Whitespace }
    IN  IF keep = {} THEN << >> ELSE SubSeq(s, Min(keep), Max(keep))

\* str.startswith("```")
startswith_fence(s) == Len(s) >= 1 /\ s[1] = FENCE

\* str.splitlines(): split at newlines, no empty last line after a final newline
RECURSIVE splitlines(_)
splitlines(s) ==
    IF s = << >> THEN << >>
    ELSE LET nl == { i \in 1..Len(s) : s[i] = NL }
         IN  IF nl = {} THEN << s >>
             ELSE << SubSeq(s, 1, Min(nl) - 1) >>
                  \o splitlines(SubSeq(s, Min(nl) + 1, Len(s)))

\* "\n".join(lines)
RECURSIVE join(_)
join(lines) ==
    IF lines = << >> THEN << >>
    ELSE IF Len(lines) = 1 THEN lines[1]
    ELSE lines[1] \o << NL >> \o join(Tail(lines))

\* sub in s, for strings
In(sub, s) ==
    \E i \in 1..(Len(s) - Len(sub) + 1) : SubSeq(s, i, i + Len(sub) - 1) = sub

fence_lines_keep_last(s2) == Tail(splitlines(s2))

\* the lines strip_code_fences keeps of a stripped string that starts with a fence
fence_lines(s2) ==
    LET lines1 == Tail(splitlines(s2))
    IN  IF lines1 /= << >> /\ startswith_fence(strip(lines1[Len(lines1)]))
        THEN SubSeq(lines1, 1, Len(lines1) - 1)
        ELSE lines1

strip_code_fences_nostrip(s) ==
    LET s2 == strip(s)
    IN  IF startswith_fence(s2) THEN join(fence_lines(s2)) ELSE s2

strip_code_fences(s) ==
    LET s2 == strip(s)
    IN  IF startswith_fence(s2) THEN strip(join(fence_lines(s2))) ELSE s2

max_chars == 24000
TruncMarker == << NL, NL, "gekuerzt", NL, NL >>

\* truncate(text, max_chars=24000)
truncate(text) ==
    IF Len(text) <= max_chars THEN text
    ELSE SubSeq(text, 1, max_chars \div 2) \o TruncMarker
         \o SubSeq(text, Len(text) - (max_chars \div 2) + 1, Len(text))

---------------------------------------------------------------------------
(* The guardrail of the LaTeX export handler. *)

missing_structure_two(doc) ==
    ~ ( In(<< DOCUMENTCLASS >>, doc) /\ In(<< BEGIN_DOCUMENT >>, doc) )

missing_structure(doc) ==
    ~ ( In(<< DOCUMENTCLASS >>, doc) /\ In(<< BEGIN_DOCUMENT >>, doc)
        /\ In(<< END_DOCUMENT >>, doc) )

\* re.search(r"\\makelettertitle(.*?)\\makeletterclosing", doc, re.DOTALL):
\* the leftmost start at which the pattern matches, the lazy group extended
\* to the nearest closing marker.  found is FALSE when there is no match.
MatchStarts(doc) ==
    { i \in 1..Len(doc) : doc[i] = MAKELETTERTITLE
                          /\ \E j \in (i+1)..Len(doc) : doc[j] = MAKELETTERCLOSING }

body_match_greedy(doc) ==
    IF MatchStarts(doc) = {} THEN [found |-> FALSE, group1 |-> << >>]
    ELSE LET i == Min(MatchStarts(doc))
             j == Max({ k \in (i+1)..Len(doc) : doc[k] = MAKELETTERCLOSING })
         IN  [found |-> TRUE, group1 |-> SubSeq(doc, i + 1, j - 1)]

body_match(doc) ==
    IF MatchStarts(doc) = {} THEN [found |-> FALSE, group1 |-> << >>]
    ELSE LET i == Min(MatchStarts(doc))
             j == Min({ k \in (i+1)..Len(doc) : doc[k] = MAKELETTERCLOSING })
         IN  [found |-> TRUE, group1 |-> SubSeq(doc, i + 1, j - 1)]

isolate_body_whole(doc) == doc

isolate_body_nofallback(doc) ==
    IF body_match(doc).found THEN body_match(doc).group1 ELSE << >>

\* letter_body = body_match.group(1) if body_match else latex_filled
isolate_body(doc) ==
    IF body_match(doc).found THEN body_match(doc).group1 ELSE doc

placeholder_tokens == { << LOREM_ipsum >>, << LOREM_Ipsum >> }

still_placeholder_one(body) == In(<< LOREM_ipsum >>, body)

still_placeholder(body) == \E tok \in placeholder_tokens : In(tok, body)

verdict_no_gate(filled, body) == "accepted"

verdict_placeholder_first(filled, body) ==
    IF still_placeholder(body) THEN "placeholder"
    ELSE IF missing_structure(filled) THEN "structure"
    ELSE "accepted"

\* if missing_structure: ... elif still_placeholder: ... else: ...
verdict(filled, body) ==
    IF missing_structure(filled) THEN "structure"
    ELSE IF still_placeholder(body) THEN "placeholder"
    ELSE "accepted"

---------------------------------------------------------------------------
(* call_openai_chat: what becomes of an exception raised by the n-th       *)
(* _do_call.  "retry": the next _do_call is made.  "report": st.error and  *)
(* return "".  "escape": the exception leaves call_openai_chat.            *)

UEE == "UnicodeEncodeError"
OtherError == "Exception"

on_exception_retry_any(n, exc) ==
    IF n = 1 \/ n = 2 THEN "retry" ELSE "escape"

on_exception(n, exc) ==
    IF n = 1 THEN (IF exc = UEE THEN "retry" ELSE "report")
    ELSE IF n = 2 THEN (IF exc = UEE THEN "retry" ELSE "escape")
    ELSE "escape"

NoCall == [kind |-> "none", value |-> << >>, error_shown |-> FALSE]
Returned(v, err) == [kind |-> "value", value |-> v, error_shown |-> err]
Raised == [kind |-> "raised", value |-> << >>, error_shown |-> FALSE]

---------------------------------------------------------------------------
(* compile_latex_to_pdf *)

Dirs == 1..NumDirs

\* how subprocess.run(cmd, ..., timeout=120) ends
ProcOutcomes ==
    [kind : {"exit"}, returncode : {0, 1}, pdf_exists : BOOLEAN]
    \cup [kind : {"timeout", "exception"}, returncode : {-1}, pdf_exists : BOOLEAN]

NoProc == [kind |-> "none", returncode |-> -1, pdf_exists |-> FALSE]
NoResult == [pdf_bytes |-> "unset", log |-> "unset"]
NotFoundResult == [pdf_bytes |-> "None", log |-> "pdflatex nicht gefunden"]

compile_result_exit_only(o) ==
    IF o.kind = "exit"
    THEN IF o.returncode = 0
         THEN [pdf_bytes |-> "main.pdf", log |-> "stdout+stderr"]
         ELSE [pdf_bytes |-> "None", log |-> "stdout+stderr"]
    ELSE [pdf_bytes |-> "None", log |-> "LaTeX-Kompilierungsfehler"]

\* the value the try block of compile_latex_to_pdf returns
compile_result(o) ==
    IF o.kind = "exit"
    THEN IF o.returncode = 0 /\ o.pdf_exists
         THEN [pdf_bytes |-> "main.pdf", log |-> "stdout+stderr"]
         ELSE [pdf_bytes |-> "None", log |-> "stdout+stderr"]
    ELSE [pdf_bytes |-> "None", log |-> "LaTeX-Kompilierungsfehler"]

\* tempfile.TemporaryDirectory(): the names mkdtemp may pick
mkdtemp(dirs) == Dirs \ dirs

with_exit_leak_on_error(dirs, d, o) ==
    IF o.kind = "exit" THEN dirs \ {d} ELSE dirs

\* leaving the with block: TemporaryDirectory.__exit__ removes the directory
with_exit(dirs, d, o) == dirs \ {d}

show_result_no_log(r) ==
    IF r.pdf_bytes /= "None"
    THEN {"success_compiled", "download_pdf"}
    ELSE {"warning_compile"}

\* what the export handler renders for (pdf_bytes, log)
show_result(r) ==
    IF r.pdf_bytes /= "None"
    THEN {"success_compiled", "download_pdf"}
    ELSE {"warning_compile"} \cup (IF r.log /= "" THEN {"log"} ELSE {})

---------------------------------------------------------------------------
(* Values of the inputs. *)

Key == << "key" >>
NoAnswer == << "Keine Antwort erhalten." >>

Keys == { << >>, Key }
CvTexts == { << >>, << WORD >> }
JobTexts == { << >>, << SP >>, << WORD >> }
LetterEdits == { << >>, << SP >>, << WORD >>, << WORD2 >> }
LetterCompletions == { << >>, << WORD >>, << WORD2 >> }
QaCompletions == { << >>, << WORD >> }

Fenced(d) == << FENCE, NL >> \o d \o << NL, FENCE >>

BodyAlphabet == { MAKELETTERTITLE, MAKELETTERCLOSING, LOREM_ipsum, LOREM_Ipsum, WORD }

Document(dc, ty, bd, body, ed) ==
    (IF dc THEN << DOCUMENTCLASS >> ELSE << >>)
    \o (IF ty THEN << STYLE_TYPO >> ELSE << >>)
    \o (IF bd THEN << BEGIN_DOCUMENT >> ELSE << >>)
    \o body
    \o (IF ed THEN << END_DOCUMENT >> ELSE << >>)

Documents ==
    { Document(dc, ty, bd, body, ed) :
        dc \in BOOLEAN, ty \in BOOLEAN, bd \in BOOLEAN, ed \in BOOLEAN,
        body \in SeqsUpTo(BodyAlphabet, MaxBody) }

\* '\documentclass{x}\begin{document}\makelettertitle Hello world \makeletterclosing\end{document}'
HelloWorld ==
    << DOCUMENTCLASS, BEGIN_DOCUMENT, MAKELETTERTITLE, SP, "Hello", SP, "world", SP,
       MAKELETTERCLOSING, END_DOCUMENT >>

\* a letter whose body is followed by placeholder text and a second closing marker
TwoClosings ==
    << DOCUMENTCLASS, BEGIN_DOCUMENT, MAKELETTERTITLE, WORD, MAKELETTERCLOSING,
       LOREM_ipsum, MAKELETTERCLOSING, END_DOCUMENT >>

\* a filled letter whose header keeps the template's \name{Lorem Ipsum}
HeaderPlaceholder ==
    << DOCUMENTCLASS, LOREM_Ipsum, BEGIN_DOCUMENT, MAKELETTERTITLE, WORD,
       MAKELETTERCLOSING, END_DOCUMENT >>

\* completions of the LaTeX fill request: a document, bare or fenced
GateTexts ==
    Documents \cup { Fenced(d) : d \in Documents }
    \cup { HelloWorld, TwoClosings, HeaderPlaceholder }

\* a few completions of the LaTeX fill request
AppTexts ==
    { << >>,
      << DOCUMENTCLASS, BEGIN_DOCUMENT, MAKELETTERTITLE, WORD,
         MAKELETTERCLOSING, END_DOCUMENT >>,
      Fenced(<< DOCUMENTCLASS, STYLE_TYPO, BEGIN_DOCUMENT, MAKELETTERTITLE, WORD,
                MAKELETTERCLOSING, END_DOCUMENT >>),
      << DOCUMENTCLASS, BEGIN_DOCUMENT, MAKELETTERTITLE, LOREM_ipsum,
         MAKELETTERCLOSING, END_DOCUMENT >>,
      << DOCUMENTCLASS, BEGIN_DOCUMENT, MAKELETTERTITLE, WORD, MAKELETTERCLOSING >> }

FenceAlphabet == { FENCE, NL, SP, WORD }

---------------------------------------------------------------------------
(* The script run.  A handler is cut where it waits for the outside world: *)
(* at each request to the text-generation API and at the compiler process. *)

NoLatex ==
    /\ completion' = NoValue
    /\ latex_filled' = NoValue
    /\ letter_body' = NoValue
    /\ tex_offered' = NoValue
    /\ tex_source' = NoValue

NoCompile ==
    /\ n_compiles' = 0
    /\ td' = 0
    /\ proc' = NoProc
    /\ result' = NoResult
    /\ UNCHANGED tmpdirs

\* the handler ends without a request (guard failed) and renders sh
EndRun(sh) ==
    /\ pc' = "idle"
    /\ shown' = sh
    /\ attempt' = 0
    /\ call_ret' = NoCall
    /\ NoLatex
    /\ NoCompile
    /\ UNCHANGED << letter_text, qa_answer >>

GenerateContinue_overwrite(letter, sh) ==
    /\ letter_text' = letter
    /\ shown' = sh \cup (IF letter /= << >> THEN {"success_created"}
                                            ELSE {"error_no_answer"})
    /\ pc' = "idle"
    /\ NoLatex
    /\ NoCompile
    /\ UNCHANGED qa_answer

\* generate handler after call_openai_chat returned letter
GenerateContinue(letter, sh) ==
    /\ letter_text' = IF letter /= << >> THEN letter ELSE letter_text
    /\ shown' = sh \cup (IF letter /= << >> THEN {"success_created"}
                                            ELSE {"error_no_answer"})
    /\ pc' = "idle"
    /\ NoLatex
    /\ NoCompile
    /\ UNCHANGED qa_answer

\* refine handler after call_openai_chat returned revised
RefineContinue(revised, sh) ==
    /\ letter_text' = IF revised /= << >> THEN revised ELSE letter_text
    /\ shown' = sh \cup (IF revised /= << >> THEN {"success_revised"}
                                             ELSE {"error_no_answer"})
    /\ pc' = "idle"
    /\ NoLatex
    /\ NoCompile
    /\ UNCHANGED qa_answer

\* Q&A handler after call_openai_chat returned answer
QaContinue(answer, sh) ==
    /\ qa_answer' = IF answer /= << >> THEN answer ELSE NoAnswer
    /\ shown' = sh
    /\ pc' = "idle"
    /\ NoLatex
    /\ NoCompile
    /\ UNCHANGED letter_text

\* LaTeX export handler after call_openai_chat returned: de-fencing, the
\* guardrail, the .tex download and the entry of compile_latex_to_pdf
LatexContinue(text, sh) ==
    LET filled == strip(strip_code_fences(text))
        body == isolate_body(filled)
        accepted == sh \cup {"preview", "download_tex"}
    IN  /\ completion' = text
        /\ latex_filled' = filled
        /\ letter_body' = body
        /\ UNCHANGED << letter_text, qa_answer >>
        /\ IF verdict(filled, body) = "structure"
           THEN /\ shown' = sh \cup {"error_structure"}
                /\ pc' = "idle"
                /\ tex_offered' = NoValue
                /\ tex_source' = NoValue
                /\ NoCompile
           ELSE IF verdict(filled, body) = "placeholder"
           THEN /\ shown' = sh \cup {"error_placeholder"}
                /\ pc' = "idle"
                /\ tex_offered' = NoValue
                /\ tex_source' = NoValue
                /\ NoCompile
           ELSE /\ tex_offered' = filled
                /\ tex_source' = filled
                /\ proc' = NoProc
                /\ \/ \* shutil.which("pdflatex") is None
                      /\ result' = NotFoundResult
                      /\ shown' = accepted \cup show_result(NotFoundResult)
                      /\ pc' = "idle"
                      /\ td' = 0
                      /\ n_compiles' = 0
                      /\ UNCHANGED tmpdirs
                   \/ \* the temporary directory is made, main.tex written,
                      \* the compiler started
                      \E d \in mkdtemp(tmpdirs) :
                          /\ td' = d
                          /\ tmpdirs' = tmpdirs \cup {d}
                          /\ n_compiles' = n_compiles + 1
                          /\ result' = NoResult
                          /\ shown' = accepted
                          /\ pc' = "compile"

Continue(button, value, sh) ==
    CASE button = "generate" -> GenerateContinue(value, sh)
      [] button = "refine" -> RefineContinue(value, sh)
      [] button = "qa" -> QaContinue(value, sh)
      [] button = "latex" -> LatexContinue(value, sh)

\* entry of call_openai_chat
Call(button, sh) ==
    IF ~OpenAI
    THEN /\ attempt' = 0
         /\ call_ret' = Returned(<< >>, TRUE)
         /\ Continue(button, << >>, sh \cup {"error_sdk"})
    ELSE /\ attempt' = 1
         /\ call_ret' = NoCall
         /\ pc' = "request"
         /\ shown' = sh
         /\ NoLatex
         /\ NoCompile
         /\ UNCHANGED << letter_text, qa_answer >>

\* the caches refreshed at the top of the generate and refine handlers
fresh_cv_cache == IF cv_text /= << >> THEN truncate(cv_text) ELSE cv_text_cache
fresh_job_cache == IF job_text /= << >> THEN truncate(job_text) ELSE job_text_cache

ClickGenerate_job_unchecked ==
    /\ pc = "idle"
    /\ run' = "generate"
    /\ req_log' = << >>
    /\ UNCHANGED << OpenAI, api_key, cv_text, job_text, fenceVars >>
    /\ IF api_key = << >>
       THEN /\ EndRun({"error_api_key"})
            /\ UNCHANGED << cv_text_cache, job_text_cache >>
       ELSE /\ cv_text_cache' = fresh_cv_cache
            /\ job_text_cache' = fresh_job_cache
            /\ IF strip(fresh_cv_cache) = << >>
               THEN EndRun({"warning_missing"})
               ELSE Call("generate", {})

ClickGenerate ==
    /\ pc = "idle"
    /\ run' = "generate"
    /\ req_log' = << >>
    /\ UNCHANGED << OpenAI, api_key, cv_text, job_text, fenceVars >>
    /\ IF api_key = << >>
       THEN /\ EndRun({"error_api_key"})
            /\ UNCHANGED << cv_text_cache, job_text_cache >>
       ELSE /\ cv_text_cache' = fresh_cv_cache
            /\ job_text_cache' = fresh_job_cache
            /\ IF strip(fresh_cv_cache) = << >> \/ strip(fresh_job_cache) = << >>
               THEN EndRun({"warning_missing"})
               ELSE Call("generate", {})

ClickRefine ==
    /\ pc = "idle"
    /\ run' = "refine"
    /\ req_log' = << >>
    /\ UNCHANGED << OpenAI, api_key, cv_text, job_text, fenceVars >>
    /\ IF api_key = << >>
       THEN /\ EndRun({"error_api_key"})
            /\ UNCHANGED << cv_text_cache, job_text_cache >>
       ELSE /\ cv_text_cache' = fresh_cv_cache
            /\ job_text_cache' = fresh_job_cache
            /\ IF \/ strip(letter_text) = << >>
                  \/ strip(truncate(fresh_cv_cache)) = << >>
                  \/ strip(truncate(fresh_job_cache)) = << >>
               THEN EndRun({"warning_missing"})
               ELSE Call("refine", {})

ClickQa ==
    /\ pc = "idle"
    /\ run' = "qa"
    /\ req_log' = << >>
    /\ UNCHANGED << OpenAI, api_key, cv_text, job_text, cv_text_cache,
                    job_text_cache, fenceVars >>
    /\ IF api_key = << >>
       THEN EndRun({"error_api_key"})
       ELSE IF truncate(cv_text_cache) = << >> \/ truncate(job_text_cache) = << >>
       THEN EndRun({"warning_missing"})
       ELSE Call("qa", {})

ClickPdf ==
    /\ pc = "idle"
    /\ run' = "pdf"
    /\ req_log' = << >>
    /\ UNCHANGED << sessionVars, fenceVars >>
    /\ \E fpdf \in BOOLEAN :
          /\ pc' = "idle"
          /\ shown' = IF fpdf THEN {"download_plain_pdf"} ELSE {"error_fpdf"}
          /\ attempt' = 0
          /\ call_ret' = NoCall
          /\ NoLatex
          /\ NoCompile

ClickLatex ==
    /\ pc = "idle"
    /\ run' = "latex"
    /\ req_log' = << >>
    /\ UNCHANGED << OpenAI, api_key, cv_text, job_text, cv_text_cache,
                    job_text_cache, fenceVars >>
    /\ IF api_key = << >>
       THEN EndRun({"error_api_key"})
       ELSE Call("latex", {})

\* one _do_call of call_openai_chat ends; texts are the completions of the
\* LaTeX fill request
Attempt(texts) ==
    /\ pc = "request"
    /\ UNCHANGED << OpenAI, api_key, cv_text, job_text, cv_text_cache,
                    job_text_cache, run, fenceVars >>
    /\ \/ \E v \in (CASE run = "latex" -> texts
                      [] run = "qa" -> QaCompletions
                      [] OTHER -> LetterCompletions) :
             /\ req_log' = Append(req_log, "value")
             /\ attempt' = 0
             /\ call_ret' = Returned(v, FALSE)
             /\ Continue(run, v, shown)
       \/ \E exc \in {UEE, OtherError} :
             /\ req_log' = Append(req_log, exc)
             /\ CASE on_exception(attempt, exc) = "retry" ->
                       /\ attempt' = attempt + 1
                       /\ UNCHANGED << pc, shown, call_ret, letter_text, qa_answer,
                                       latexVars, compileVars >>
                  [] on_exception(attempt, exc) = "report" ->
                       /\ attempt' = 0
                       /\ call_ret' = Returned(<< >>, TRUE)
                       /\ Continue(run, << >>, shown \cup {"error_openai"})
                  [] OTHER ->
                       /\ attempt' = 0
                       /\ call_ret' = Raised
                       /\ pc' = "idle"
                       /\ shown' = shown \cup {"uncaught_exception"}
                       /\ UNCHANGED << letter_text, qa_answer, latexVars, compileVars >>

\* the compiler process ends; compile_latex_to_pdf returns and the handler
\* renders the result
CompileRun ==
    /\ pc = "compile"
    /\ \E o \in ProcOutcomes :
          /\ proc' = o
          /\ result' = compile_result(o)
          /\ tmpdirs' = with_exit(tmpdirs, td, o)
          /\ shown' = shown \cup show_result(compile_result(o))
    /\ pc' = "idle"
    /\ UNCHANGED << sessionVars, run, callVars, latexVars, n_compiles, td, fenceVars >>

\* the user changes a widget: a script run with no button pressed
UserInput ==
    /\ pc = "idle"
    /\ run' = "none"
    /\ req_log' = << >>
    /\ UNCHANGED << OpenAI, qa_answer, fenceVars >>
    /\ pc' = "idle" /\ shown' = {} /\ attempt' = 0 /\ call_ret' = NoCall
    /\ NoLatex
    /\ NoCompile
    /\ \/ /\ api_key' \in Keys
          /\ UNCHANGED << cv_text, cv_text_cache, job_text, job_text_cache, letter_text >>
       \/ /\ cv_text' \in CvTexts
          /\ cv_text_cache' = IF cv_text' /= << >> THEN truncate(cv_text')
                                                   ELSE cv_text_cache
          /\ UNCHANGED << api_key, job_text, job_text_cache, letter_text >>
       \/ /\ job_text' \in JobTexts
          /\ UNCHANGED << api_key, cv_text, cv_text_cache, job_text_cache, letter_text >>
       \/ /\ letter_text' \in LetterEdits
          /\ UNCHANGED << api_key, cv_text, cv_text_cache, job_text, job_text_cache >>

\* one more application of strip_code_fences to the previous output
Defence ==
    /\ Len(fence_out) < 2
    /\ fence_out' = Append(fence_out,
                           strip_code_fences(IF fence_out = << >> THEN fence_in
                                             ELSE fence_out[Len(fence_out)]))
    /\ UNCHANGED << sessionVars, pc, run, callVars, latexVars, compileVars,
                    shown, fence_in >>

---------------------------------------------------------------------------
(* Specifications. *)

IdleInit ==
    /\ pc = "idle" /\ run = "none" /\ attempt = 0 /\ req_log = << >>
    /\ call_ret = NoCall
    /\ completion = NoValue /\ latex_filled = NoValue /\ letter_body = NoValue
    /\ tex_offered = NoValue /\ tex_source = NoValue
    /\ n_compiles = 0 /\ td = 0 /\ proc = NoProc /\ result = NoResult
    /\ shown = {}
    /\ qa_answer = << >>

\* the session as the script's first run leaves it
Init ==
    /\ IdleInit
    /\ OpenAI \in BOOLEAN
    /\ api_key = << >> /\ cv_text = << >> /\ cv_text_cache = << >>
    /\ job_text = << >> /\ job_text_cache = << >> /\ letter_text = << >>
    /\ tmpdirs = {}
    /\ fence_in = << >> /\ fence_out = << >>

Next ==
    \/ UserInput
    \/ ClickGenerate
    \/ ClickRefine
    \/ ClickQa
    \/ ClickPdf
    \/ ClickLatex
    \/ Attempt(AppTexts)
    \/ CompileRun

Spec == Init /\ [][Next]_vars

\* a session with key, sources and letter in place, where LaTeX export is pressed
ExportSession ==
    /\ IdleInit
    /\ OpenAI = TRUE
    /\ api_key = Key /\ cv_text = << WORD >> /\ cv_text_cache = << WORD >>
    /\ job_text = << WORD >> /\ job_text_cache = << WORD >> /\ letter_text = << WORD >>
    /\ fence_in = << >> /\ fence_out = << >>

\* every name but one is taken in the temp directory
ExportInit == ExportSession /\ tmpdirs = Dirs \ {1}

ExportNext ==
    \/ ClickLatex
    \/ Attempt(GateTexts)
    \/ CompileRun

ExportSpec == ExportInit /\ [][ExportNext]_vars

\* the same session with other entries present in the temp directory
CompileInit == ExportSession /\ tmpdirs \in { D \in SUBSET Dirs : D /= Dirs }

CompileNext ==
    \/ ClickLatex
    \/ Attempt(AppTexts)
    \/ CompileRun

CompileSpec == CompileInit /\ [][CompileNext]_vars

\* strip_code_fences applied, and applied again, to every short input
FenceInit ==
    /\ IdleInit
    /\ OpenAI = TRUE
    /\ api_key = << >> /\ cv_text = << >> /\ cv_text_cache = << >>
    /\ job_text = << >> /\ job_text_cache = << >> /\ letter_text = << >>
    /\ tmpdirs = {}
    /\ fence_in \in SeqsUpTo(FenceAlphabet, MaxFenceLen)
    /\ fence_out = << >>

FenceNext == Defence

FenceSpec == FenceInit /\ [][FenceNext]_vars

---------------------------------------------------------------------------
(* Properties. *)

Has(doc, lexeme) == \E i \in DOMAIN doc : doc[i] = lexeme

Gated == run = "latex" /\ latex_filled /= NoValue

Complete(doc) ==
    Has(doc, DOCUMENTCLASS) /\ Has(doc, BEGIN_DOCUMENT) /\ Has(doc, END_DOCUMENT)

HasPlaceholder(doc) == Has(doc, LOREM_ipsum) \/ Has(doc, LOREM_Ipsum)

\* a title marker with a closing marker somewhere after it
HasMarkerPair(doc) ==
    \E i, j \in DOMAIN doc :
        i < j /\ doc[i] = MAKELETTERTITLE /\ doc[j] = MAKELETTERCLOSING

Rejected(message) ==
    /\ message \in shown
    /\ pc = "idle"
    /\ tex_offered = NoValue
    /\ tex_source = NoValue
    /\ n_compiles = 0
    /\ result = NoResult
    /\ shown \cap {"preview", "download_tex", "download_pdf", "success_compiled"} = {}

\* C1: in the LaTeX export, a de-fenced text that lacks \documentclass,
\* \begin{document} or \end{document} is rejected with the structure error,
\* whatever else it contains, the empty text of a failed call included.
C1_StructureRejected ==
    (Gated /\ ~Complete(latex_filled))
        => (Rejected("error_structure") /\ "error_placeholder" \notin shown)

\* a text with class and begin but no end marker, placeholder inside, was rejected
C1_Witness ==
    /\ Gated
    /\ Has(latex_filled, DOCUMENTCLASS) /\ Has(latex_filled, BEGIN_DOCUMENT)
    /\ ~Has(latex_filled, END_DOCUMENT)
    /\ HasPlaceholder(latex_filled)
    /\ "error_structure" \in shown

\* C2: a structurally complete text whose isolated body holds "Lorem ipsum" or
\* "Lorem Ipsum" is rejected with the placeholder error, neither offered for
\* download nor compiled.
C2_PlaceholderRejected ==
    (Gated /\ Complete(latex_filled) /\ HasPlaceholder(letter_body))
        => (Rejected("error_placeholder") /\ "error_structure" \notin shown)

\* the fenced scenario of the specification was rejected as placeholder text
C2_Witness ==
    /\ Gated
    /\ completion = Fenced(<< DOCUMENTCLASS, BEGIN_DOCUMENT, MAKELETTERTITLE,
                              LOREM_ipsum, MAKELETTERCLOSING, END_DOCUMENT >>)
    /\ letter_body = << LOREM_ipsum >>
    /\ "error_placeholder" \in shown

\* C3: compile_latex_to_pdf returns PDF bytes if and only if the compiler
\* exited with code 0 and main.pdf exists; exit 0 without the file, a non-zero
\* exit with the file, a timeout, an exception and a missing binary return none.
C3_SuccessIffExitZeroAndPdf ==
    (result /= NoResult)
        => ( (result.pdf_bytes /= "None")
               <=> (proc.kind = "exit" /\ proc.returncode = 0 /\ proc.pdf_exists) )

\* the compiler exited 0 and left no main.pdf: no PDF bytes were returned
C3_Witness ==
    /\ proc.kind = "exit" /\ proc.returncode = 0 /\ ~proc.pdf_exists
    /\ result.pdf_bytes = "None"
    /\ "warning_compile" \in shown

\* C4: call_openai_chat lets no exception escape: whenever the last request
\* made by an action failed, an error was reported and "" was returned.
C4_NoExceptionEscapes ==
    (pc = "idle" /\ req_log /= << >> /\ req_log[Len(req_log)] /= "value")
        => call_ret = Returned(<< >>, TRUE)

\* C5 as stated: de-fencing twice equals de-fencing once, for every input.
C5_Idempotent ==
    (Len(fence_out) = 2) => (fence_out[2] = fence_out[1])

\* C5 as amended: de-fencing twice equals de-fencing once exactly when the
\* first result does not itself start with a fence.
C5_IdempotentUnlessStillFenced ==
    (Len(fence_out) = 2)
        => ( (fence_out[2] = fence_out[1]) <=> ~(fence_out[1] /= << >>
                                                 /\ fence_out[1][1] = FENCE) )

\* a fenced input with content was de-fenced twice and the two results agree
C5_Witness ==
    /\ Len(fence_out) = 2
    /\ Len(fence_in) >= 1 /\ fence_in[1] = FENCE
    /\ Has(fence_out[1], WORD)
    /\ fence_out[1][1] /= FENCE
    /\ fence_out[2] = fence_out[1]

\* C6: with a title marker followed by a closing marker, the isolated body is
\* the text strictly between the first title marker and the first closing
\* marker after it; for the Hello-world scenario the document is accepted and
\* the body is ' Hello world '.
C6_BodyBetweenMarkers ==
    /\ (Gated /\ HasMarkerPair(latex_filled)) =>
          \E i, j \in DOMAIN latex_filled :
              /\ i < j
              /\ latex_filled[i] = MAKELETTERTITLE
              /\ latex_filled[j] = MAKELETTERCLOSING
              /\ \A k \in 1..(i-1) : latex_filled[k] /= MAKELETTERTITLE
              /\ \A k \in (i+1)..(j-1) : latex_filled[k] /= MAKELETTERCLOSING
              /\ Len(letter_body) = j - i - 1
              /\ \A k \in 1..Len(letter_body) : letter_body[k] = latex_filled[i + k]
    /\ (Gated /\ completion = HelloWorld) =>
          /\ letter_body = << SP, "Hello", SP, "world", SP >>
          /\ tex_offered = HelloWorld
          /\ "download_tex" \in shown

\* a text with two closing markers after the title, placeholder between them,
\* was accepted: its body ended at the first closing marker
C6_Witness ==
    /\ Gated
    /\ \E i, j, k \in DOMAIN latex_filled :
          /\ i < j /\ j < k
          /\ latex_filled[i] = MAKELETTERTITLE
          /\ latex_filled[j] = MAKELETTERCLOSING
          /\ HasPlaceholder(SubSeq(latex_filled, j + 1, k - 1))
          /\ latex_filled[k] = MAKELETTERCLOSING
    /\ tex_offered = latex_filled

\* C7: without a title marker followed by a closing marker the validator does
\* not fail: the whole text is the body and the placeholder check runs on it.
C7_WholeTextFallback ==
    (Gated /\ ~HasMarkerPair(latex_filled)) =>
        /\ call_ret.kind = "value"
        /\ letter_body = latex_filled
        /\ Complete(latex_filled) =>
              IF HasPlaceholder(latex_filled)
              THEN Rejected("error_placeholder")
              ELSE tex_offered = latex_filled /\ "download_tex" \in shown

\* a complete text with the closing marker only before the title marker and a
\* placeholder outside was rejected as placeholder text
C7_Witness ==
    /\ Gated
    /\ Complete(latex_filled)
    /\ Has(latex_filled, MAKELETTERTITLE) /\ Has(latex_filled, MAKELETTERCLOSING)
    /\ ~HasMarkerPair(latex_filled)
    /\ letter_body = latex_filled
    /\ "error_placeholder" \in shown

\* C8: the text offered for download and handed to compile_latex_to_pdf never
\* contains the misspelled style-name command.
C8_TypoPatched ==
    /\ (tex_source /= NoValue) => ~Has(tex_source, STYLE_TYPO)
    /\ (tex_offered /= NoValue) => ~Has(tex_offered, STYLE_TYPO)

\* C9: the temporary directory of an invocation is a new one, exists while the
\* compiler runs and is gone when compile_latex_to_pdf has returned, however
\* the compiler ended; with the binary missing no directory is made.
C9_TempDirScoped ==
    /\ [](pc = "compile" => td \in tmpdirs)
    /\ []((pc = "idle" /\ td /= 0) => (proc.kind /= "none" /\ td \notin tmpdirs))
    /\ []((result = NotFoundResult) => (td = 0 /\ proc.kind = "none"))
    /\ [][ (pc /= "compile" /\ pc' = "compile")
              => (td' \notin tmpdirs /\ tmpdirs' = tmpdirs \cup {td'}) ]_vars
    /\ [][ (pc = "compile" /\ pc' /= "compile")
              => (tmpdirs' = tmpdirs \ {td}) ]_vars
    /\ [][ (pc /= "compile" /\ pc' /= "compile") => (tmpdirs' = tmpdirs) ]_vars

\* the compiler timed out next to a foreign directory: only its own is gone
C9_Witness ==
    /\ pc = "idle"
    /\ proc.kind = "timeout"
    /\ td /= 0
    /\ td \notin tmpdirs
    /\ tmpdirs /= {}

\* C10 as stated: one action issues at most one text-generation request and
\* at most one compiler invocation.
C10_NoRetry ==
    Len(req_log) <= 1 /\ n_compiles <= 1

\* C10 as amended: one action starts the compiler at most once and issues at
\* most three requests, a further request only after UnicodeEncodeError.
C10_RetryOnlyOnUnicodeError ==
    /\ n_compiles <= 1
    /\ Len(req_log) <= 3
    /\ \A i \in 1..(Len(req_log) - 1) : req_log[i] = UEE
    /\ (pc = "request") => (attempt = Len(req_log) + 1)
    /\ (pc /= "request") => (attempt = 0)

\* a LaTeX export whose third request succeeded and whose compiler timed out
C10_Witness ==
    /\ pc = "idle"
    /\ run = "latex"
    /\ req_log = << UEE, UEE, "value" >>
    /\ n_compiles = 1
    /\ proc.kind = "timeout"

\* C11: the gate precedes compilation: the .tex download is offered and
\* compile_latex_to_pdf is entered only with a text that passed the structural
\* check and the placeholder check; for a rejected text neither happens.
C11_GateBeforeCompile ==
    ( \/ tex_offered /= NoValue
      \/ tex_source /= NoValue
      \/ "download_tex" \in shown
      \/ pc = "compile"
      \/ n_compiles > 0
      \/ result /= NoResult )
        => ( /\ Gated
             /\ Complete(latex_filled)
             /\ ~HasPlaceholder(letter_body)
             /\ tex_offered = latex_filled
             /\ tex_source = latex_filled
             /\ shown \cap {"error_structure", "error_placeholder"} = {} )

\* the compiler is running on a text that passed both checks
C11_Witness ==
    /\ pc = "compile"
    /\ n_compiles = 1
    /\ Complete(tex_source)
    /\ HasMarkerPair(tex_source)
    /\ ~HasPlaceholder(tex_source)

\* C12 as stated: every failure of the compilation step hands back the
\* compiler's captured stdout/stderr log, and the handler shows it.
C12_CapturedLogShown ==
    (result /= NoResult /\ result.pdf_bytes = "None")
        => (result.log = "stdout+stderr" /\ "log" \in shown)

\* C12 as amended: every failure hands back a text the handler shows: the
\* captured stdout/stderr log when the compiler exited, the not-found hint
\* when the binary is missing, the exception message after a timeout or
\* another exception.
C12_DiagnosticShown ==
    (result /= NoResult /\ result.pdf_bytes = "None")
        => ( /\ "log" \in shown
             /\ "warning_compile" \in shown
             /\ result.log = ( CASE proc.kind = "exit" -> "stdout+stderr"
                                 [] proc.kind = "none" -> "pdflatex nicht gefunden"
                                 [] OTHER -> "LaTeX-Kompilierungsfehler" ) )

\* the compiler raised an exception with main.pdf already written: the
\* exception message was shown
C12_Witness ==
    /\ proc.kind = "exception"
    /\ proc.pdf_exists
    /\ result.log = "LaTeX-Kompilierungsfehler"
    /\ "log" \in shown

\* t is s without its leading and trailing whitespace
IsTrimOf(t, s) ==
    \E i \in 0..Len(s) : \E j \in i..Len(s) :
        /\ \A k \in 1..i : s[k] \in Whitespace
        /\ \A k \in (j+1)..Len(s) : s[k] \in Whitespace
        /\ t = SubSeq(s, i + 1, j)
        /\ (t = << >> \/ (t[1] \notin Whitespace /\ t[Len(t)] \notin Whitespace))

\* a line that, but for leading blanks, begins with the fence
IsFenceLine(line) ==
    \E k \in DOMAIN line : line[k] = FENCE /\ \A m \in 1..(k-1) : line[m] = SP

Pieces(s) == { SubSeq(s, i, j) : i \in 1..(Len(s) + 1), j \in 0..Len(s) }

\* C13: of an input whose first line opens a fence and whose last line closes
\* it, strip_code_fences returns the lines between the two, trimmed, and
\* nothing else; an input that does not start with a fence is returned trimmed.
C13_FencedContentKept ==
    (Len(fence_out) >= 1) =>
        \A t \in Pieces(fence_in) : IsTrimOf(t, fence_in) =>
            /\ (t = << >> \/ t[1] /= FENCE) => (fence_out[1] = t)
            /\ \A p, q \in DOMAIN t :
                  ( /\ t[1] = FENCE
                    /\ p <= q
                    /\ t[p] = NL /\ \A k \in 1..(p-1) : t[k] /= NL
                    /\ t[q] = NL /\ \A k \in (q+1)..Len(t) : t[k] /= NL
                    /\ IsFenceLine(SubSeq(t, q + 1, Len(t))) )
                  => IsTrimOf(fence_out[1], SubSeq(t, p + 1, q - 1))

\* a five-lexeme input, one word between an opening and a closing fence line,
\* was de-fenced once to that word
C13_Witness ==
    /\ Len(fence_out) = 1
    /\ fence_in = << FENCE, NL, WORD, NL, FENCE >>
    /\ fence_out[1] = << WORD >>

\* C14: letter_text changes only in a generate or refine action that got a
\* non-empty completion, which becomes the letter, or by a user edit; an empty
\* completion, a plain-PDF export and a LaTeX export leave it as it is.
C14_LetterTextFrame ==
    [][ (letter_text' /= letter_text) =>
            \/ (pc = "idle" /\ run' = "none" /\ letter_text' \in LetterEdits)
            \/ /\ pc = "request"
               /\ run \in {"generate", "refine"}
               /\ call_ret'.kind = "value"
               /\ call_ret'.value /= << >>
               /\ letter_text' = call_ret'.value ]_vars

\* a generate action on an existing letter got the empty completion: the
\* letter is still there and the no-answer error is shown
C14_Witness ==
    /\ pc = "idle"
    /\ run = "generate"
    /\ req_log = << "value" >>
    /\ call_ret = Returned(<< >>, FALSE)
    /\ letter_text = << WORD2 >>
    /\ "error_no_answer" \in shown

\* the three ways the guardrail ends
GateOutcomes ==
    { m \in {"error_structure", "error_placeholder", "download_tex"} : m \in shown }

\* C15: a LaTeX export that reaches the gate ends in exactly one of structure
\* error, placeholder error or acceptance, and the structural check comes
\* first: an incomplete text with a placeholder in its body gets the structure
\* error, never the placeholder error.
C15_OneOutcomeStructureFirst ==
    Gated =>
        /\ Cardinality(GateOutcomes) = 1
        /\ (~Complete(latex_filled) /\ HasPlaceholder(letter_body))
              => GateOutcomes = {"error_structure"}
        /\ ("download_tex" \in shown) <=> (tex_offered /= NoValue)

\* a text without \documentclass whose marked body holds a placeholder was
\* reported as structurally incomplete
C15_Witness ==
    /\ Gated
    /\ ~Has(latex_filled, DOCUMENTCLASS)
    /\ HasMarkerPair(latex_filled)
    /\ letter_body /= latex_filled
    /\ HasPlaceholder(letter_body)
    /\ GateOutcomes = {"error_structure"}

\* the text between the first title marker and the first closing marker after it
MarkedBody(doc) ==
    LET i == Min({ k \in DOMAIN doc : doc[k] = MAKELETTERTITLE })
        j == Min({ k \in DOMAIN doc : k > i /\ doc[k] = MAKELETTERCLOSING })
    IN  [ k \in 1..(j - i - 1) |-> doc[i + k] ]

\* C16: the placeholder check looks at the body only: a complete text with
\* title and closing marker in order and no placeholder between them is
\* accepted, also when a placeholder stands outside the marker pair.
C16_PlaceholderOutsideBodyAccepted ==
    ( /\ Gated
      /\ Complete(latex_filled)
      /\ HasMarkerPair(latex_filled)
      /\ ~HasPlaceholder(MarkedBody(latex_filled)) )
        => ( /\ GateOutcomes = {"download_tex"}
             /\ tex_offered = latex_filled
             /\ tex_source = latex_filled )

\* the letter that keeps the template's placeholder name in its header was
\* accepted and handed to the compiler
C16_Witness ==
    /\ Gated
    /\ completion = HeaderPlaceholder
    /\ HasPlaceholder(latex_filled)
    /\ letter_body = << WORD >>
    /\ tex_source = HeaderPlaceholder
    /\ "download_tex" \in shown

\* text with something other than blanks and line breaks in it
NonBlank(s) == \E i \in DOMAIN s : s[i] \notin Whitespace

\* C17: no request goes out with a required input missing: generate sends one
\* only with API key, CV text and job text present, refine only with the
\* letter present as well; otherwise the action renders one warning or error
\* and leaves the letter alone.
C17_NoRequestWithoutInputs ==
    /\ []( (run \in {"generate", "refine"} /\ (pc = "request" \/ req_log /= << >>))
             => ( /\ OpenAI
                  /\ api_key /= << >>
                  /\ NonBlank(cv_text_cache)
                  /\ NonBlank(job_text_cache)
                  /\ (run = "refine") => NonBlank(letter_text) ) )
    /\ []( (run \in {"generate", "refine"} /\ pc = "idle" /\ req_log = << >>)
             => ( /\ shown \in { {"error_api_key"}, {"warning_missing"},
                                 {"error_sdk", "error_no_answer"} }
                  /\ ("error_sdk" \in shown) => ~OpenAI
                  /\ ( \/ api_key = << >>
                       \/ ~NonBlank(cv_text_cache)
                       \/ ~NonBlank(job_text_cache)
                       \/ (run = "refine" /\ ~NonBlank(letter_text))
                       \/ ~OpenAI ) ) )
    /\ [][ (run' \in {"generate", "refine"} /\ pc = "idle" /\ pc' = "idle")
             => (letter_text' = letter_text) ]_vars

\* generate was pressed with key and CV in place and a job text of one blank:
\* the warning is shown and no request was made
C17_Witness ==
    /\ run = "generate"
    /\ pc = "idle"
    /\ OpenAI
    /\ api_key = Key
    /\ NonBlank(cv_text_cache)
    /\ job_text_cache = << SP >>
    /\ req_log = << >>
    /\ shown = {"warning_missing"}

====
